---- MODULE Spec2Model ----
(***************************************************************************)
(* yesno-mcp-server, src/server.js (v2.2.0, lines 1-215): the JSON-RPC     *)
(* dispatcher behind POST /mcp, GET /answer, the SSE channel GET /sse and  *)
(* the 404 fallback; and the POST /invocations handler appended at the end *)
(* of the file (lines 964-973).                                            *)
(*                                                                         *)
(* JSON values are tagged records: Undefined (an absent property), Null,   *)
(* Bool, Num, Str, Arr (a sequence of values) and Obj (a function from     *)
(* property names to values).  The handler runs to completion inside one   *)
(* JavaScript turn, so one POST is one action.                             *)
(***************************************************************************)
EXTENDS Integers, Sequences, FiniteSets, TLC

VARIABLES
  route,          \* method and path of the request: "POST /mcp", "GET /sse", ...
  reqBody,        \* req.body of the POST
  reqQuery,       \* req.query.prompt of GET /answer
  now,            \* Date.now() read by the POST handler
  rnd,            \* the values randomInt(0, 2) returned, per loop iteration
  rng,            \* the generator the handler drew from ("none": it drew nothing)
  resStatus,      \* status of the response (0: nothing sent yet)
  resBody,        \* body of the response
  publicBaseUrl,  \* process.env.PUBLIC_BASE_URL
  time,           \* the wall clock of the SSE channel, in ms
  sse             \* the SSE connections

httpVars == <<route, reqBody, reqQuery, now, rnd, rng, resStatus, resBody>>

sseVars == <<publicBaseUrl, time, sse>>

vars == <<route, reqBody, reqQuery, now, rnd, rng, resStatus, resBody,
          publicBaseUrl, time, sse>>

(* ------------------------------ bounds --------------------------------- *)
\* longest array body
MaxBatch == 2
\* Date.now() is drawn from 1..MaxClock
MaxClock == 2

(* --------------------------- JSON values ------------------------------- *)
Undefined == [k |-> "undefined"]
Null == [k |-> "null"]
Bool(b) == [k |-> "bool", b |-> b]
Num(n) == [k |-> "num", n |-> n]
Str(s) == [k |-> "str", s |-> s]
Arr(a) == [k |-> "arr", a |-> a]
Obj(f) == [k |-> "obj", f |-> f]
EmptyObj == Obj([p \in {} |-> Undefined])

IsArray(v) == v.k = "arr"
IsNullish(v) == v.k \in {"undefined", "null"}

\* JavaScript truthiness: undefined, null, false, 0 and "" are falsy.
Truthy(v) ==
  CASE v.k \in {"undefined", "null"} -> FALSE
    [] v.k = "bool" -> v.b
    [] v.k = "num" -> v.n # 0
    [] v.k = "str" -> v.s # ""
    [] OTHER -> TRUE

\* v.key on a non-nullish value: an own property of an object, else undefined
\* (none of the keys read by the handler lives on a prototype).
Get(v, key) ==
  IF v.k = "obj" /\ key \in DOMAIN v.f THEN v.f[key] ELSE Undefined

\* v?.key
OptGet(v, key) == IF IsNullish(v) THEN Undefined ELSE Get(v, key)

\* a || b
OrElse(a, b) == IF Truthy(a) THEN a ELSE b

(* ------------------------- conversions to text ------------------------- *)
\* String(v) of an array element inside Array.prototype.join (the arrays of
\* the model hold no nested array).
ElemToString(v) ==
  CASE IsNullish(v) -> [ok |-> TRUE, s |-> ""]
    [] v.k = "str" -> [ok |-> TRUE, s |-> v.s]
    [] v.k = "num" -> [ok |-> TRUE, s |-> ToString(v.n)]
    [] v.k = "bool" -> [ok |-> TRUE, s |-> IF v.b THEN "true" ELSE "false"]
    [] v.k = "obj" ->
         IF "toString" \in DOMAIN v.f
           THEN [ok |-> FALSE, s |-> ""]
           ELSE [ok |-> TRUE, s |-> "[object Object]"]
    [] OTHER -> [ok |-> TRUE, s |-> ""]

RECURSIVE Join(_, _)
\* Array.prototype.join(",") from element i on; ok = FALSE when it throws.
Join(a, i) ==
  IF i > Len(a) THEN [ok |-> TRUE, s |-> ""]
  ELSE LET h == ElemToString(a[i])
           t == Join(a, i + 1)
       IN  IF ~h.ok \/ ~t.ok THEN [ok |-> FALSE, s |-> ""]
           ELSE [ok |-> TRUE,
                 s |-> IF i < Len(a) THEN h.s \o "," \o t.s ELSE h.s]

\* v.toString() on a truthy-or-"" value.  A parsed JSON object that owns a
\* "toString" property holds a non-callable value there, so the call throws
\* TypeError (ok = FALSE).
JsToString(v) ==
  CASE v.k = "str" -> [ok |-> TRUE, s |-> v.s]
    [] v.k = "num" -> [ok |-> TRUE, s |-> ToString(v.n)]
    [] v.k = "bool" -> [ok |-> TRUE, s |-> IF v.b THEN "true" ELSE "false"]
    [] v.k = "arr" -> Join(v.a, 1)
    [] v.k = "obj" ->
         IF "toString" \in DOMAIN v.f
           THEN [ok |-> FALSE, s |-> ""]
           ELSE [ok |-> TRUE, s |-> "[object Object]"]
    [] OTHER -> [ok |-> FALSE, s |-> ""]

\* The strings of the model that hold a character JSON.stringify escapes.
JsonEscape(s) ==
  CASE s = "a\"b" -> "a\\\"b"
    [] OTHER -> s

\* JSON.stringify of a string.
JsonQuote(s) == "\"" \o JsonEscape(s) \o "\""

\* JSON.stringify({ answer, prompt })
StringifyAnswer(answer, prompt) ==
  "{\"answer\":" \o JsonQuote(answer) \o ",\"prompt\":" \o JsonQuote(prompt) \o "}"

(* ------------------------------ helpers -------------------------------- *)
\* a fault: the second outcome is spelled differently
yesNoRandomCapital(r) == IF r = 0 THEN "yes" ELSE "No"

\* randomInt(0, 2) returned r
yesNoRandom(r) == IF r = 0 THEN "yes" ELSE "no"

rpcResult(id, result) ==
  Obj([jsonrpc |-> Str("2.0"), id |-> id, result |-> result])

\* a fault: the failure entry loses the id of its request
rpcErrorNullId(id, code, message) ==
  Obj([jsonrpc |-> Str("2.0"), id |-> Null,
       error |-> Obj([code |-> Num(code), message |-> Str(message)])])

rpcError(id, code, message) ==
  Obj([jsonrpc |-> Str("2.0"), id |-> id,
       error |-> Obj([code |-> Num(code), message |-> Str(message)])])

(* ---------------------------- POST /mcp --------------------------------- *)
\* a fault: the message is destructured without its `|| {}` default
DestructureNoDefault(msg) ==
  LET rawId == Get(msg, "id")
  IN  [id |-> IF rawId = Undefined THEN Null ELSE rawId,
       method |-> Get(msg, "method"),
       params |-> Get(msg, "params"),
       threw |-> IsNullish(msg)]

\* const { id = null, method, params } = msg || {};
\* Destructuring undefined or null throws TypeError (threw).
Destructure(msg) ==
  LET m == OrElse(msg, EmptyObj)
      rawId == Get(m, "id")
  IN  [id |-> IF rawId = Undefined THEN Null ELSE rawId,
       method |-> Get(m, "method"),
       params |-> Get(m, "params"),
       threw |-> IsNullish(m)]

\* the lower-case form of the method names of the model
Lower(s) ==
  CASE s = "Ping" -> "ping"
    [] OTHER -> s

\* a fault: the method name is matched without regard to case
MethodIsIgnoreCase(method, name) ==
  method.k = "str" /\ Lower(method.s) = name

\* method === "<name>"
MethodIs(method, name) == method = Str(name)

ProtocolVersion == "2025-03-26"

\* a fault: the proposal of the client is echoed whatever it is
InitializeResultEcho(params) ==
  Obj([protocolVersion |->
         OrElse(OptGet(params, "protocolVersion"), Str(ProtocolVersion)),
       serverInfo |-> Obj([name |-> Str("yesno-mcp"), version |-> Str("2.2.0")]),
       capabilities |->
         Obj([tools |-> Obj([list |-> Bool(TRUE), call |-> Bool(TRUE)])])])

\* the result object of the initialize branch
InitializeResult(params) ==
  Obj([protocolVersion |-> Str(ProtocolVersion),
       serverInfo |-> Obj([name |-> Str("yesno-mcp"), version |-> Str("2.2.0")]),
       capabilities |->
         Obj([tools |-> Obj([list |-> Bool(TRUE), call |-> Bool(TRUE)])])])

\* the one entry of the tools/list catalog
ToolDescriptor ==
  Obj([name |-> Str("yesno"),
       description |-> Str("Return a cryptographically random yes or no."),
       input_schema |->
         Obj([type |-> Str("object"),
              properties |->
                Obj([prompt |->
                  Obj([type |-> Str("string"),
                       description |->
                         Str("Any question or text (ignored for randomness).")])]),
              required |-> Arr(<<Str("prompt")>>),
              additionalProperties |-> Bool(FALSE)])])

\* a fault: the tool name is not checked
ToolsCallAnyName(id, params, r) ==
  LET prompt == JsToString(
                  OrElse(OptGet(OptGet(params, "arguments"), "prompt"), Str("")))
  IN  IF ~prompt.ok
        THEN [pushed |-> <<rpcError(id, -32603, "Internal error")>>, drawn |-> <<>>, threw |-> FALSE]
      ELSE [pushed |->
              <<rpcResult(id,
                  Obj([content |->
                         Arr(<<Obj([type |-> Str("text"),
                                    text |-> Str(StringifyAnswer(yesNoRandom(r),
                                                                 prompt.s))])>>),
                       isError |-> Bool(FALSE)]))>>,
            drawn |-> <<r>>, threw |-> FALSE]

\* a fault: an empty prompt always gets "no"
ToolsCallPromptBiased(id, params, r) ==
  LET toolName == OptGet(params, "name")
      prompt == JsToString(
                  OrElse(OptGet(OptGet(params, "arguments"), "prompt"), Str("")))
      answer == IF prompt.s = "" THEN "no" ELSE yesNoRandom(r)
  IN  IF toolName # Str("yesno")
        THEN [pushed |-> <<rpcError(id, -32601, "Unknown tool")>>,
              drawn |-> <<>>, threw |-> FALSE]
      ELSE IF ~prompt.ok
        THEN [pushed |-> <<rpcError(id, -32603, "Internal error")>>,
              drawn |-> <<>>, threw |-> FALSE]
      ELSE [pushed |->
              <<rpcResult(id,
                  Obj([content |->
                         Arr(<<Obj([type |-> Str("text"),
                                    text |-> Str(StringifyAnswer(answer, prompt.s))])>>),
                       isError |-> Bool(FALSE)]))>>,
            drawn |-> <<r>>, threw |-> FALSE]

\* a fault: the branch has no try/catch
ToolsCallUncaught(id, params, r) ==
  LET toolName == OptGet(params, "name")
      prompt == JsToString(
                  OrElse(OptGet(OptGet(params, "arguments"), "prompt"), Str("")))
  IN  IF toolName # Str("yesno")
        THEN [pushed |-> <<rpcError(id, -32601, "Unknown tool")>>,
              drawn |-> <<>>, threw |-> FALSE]
      ELSE IF ~prompt.ok
        THEN [pushed |-> <<>>, drawn |-> <<>>, threw |-> TRUE]
      ELSE [pushed |->
              <<rpcResult(id,
                  Obj([content |->
                         Arr(<<Obj([type |-> Str("text"),
                                    text |-> Str(StringifyAnswer(yesNoRandom(r),
                                                                 prompt.s))])>>),
                       isError |-> Bool(FALSE)]))>>,
            drawn |-> <<r>>, threw |-> FALSE]

\* The tools/call branch with its try/catch.  r is what randomInt(0, 2)
\* returns if it is called; drawn lists the values it did return.
ToolsCall(id, params, r) ==
  LET toolName == OptGet(params, "name")
      prompt == JsToString(
                  OrElse(OptGet(OptGet(params, "arguments"), "prompt"), Str("")))
  IN  IF toolName # Str("yesno")
        THEN [pushed |-> <<rpcError(id, -32601, "Unknown tool")>>, drawn |-> <<>>, threw |-> FALSE]
      ELSE IF ~prompt.ok
        THEN [pushed |-> <<rpcError(id, -32603, "Internal error")>>, drawn |-> <<>>, threw |-> FALSE]
      ELSE [pushed |->
              <<rpcResult(id,
                  Obj([content |->
                         Arr(<<Obj([type |-> Str("text"),
                                    text |-> Str(StringifyAnswer(yesNoRandom(r),
                                                                 prompt.s))])>>),
                       isError |-> Bool(FALSE)]))>>,
            drawn |-> <<r>>, threw |-> FALSE]

\* a fault: the Invalid Request branch lacks its `continue` and falls through
\* to the method dispatch
DispatchFallThrough(msg, t, r) ==
  LET d == Destructure(msg)
      invalid == IF ~Truthy(d.method)
                   THEN <<rpcError(d.id, -32600, "Invalid Request")>>
                   ELSE <<>>
  IN  IF d.threw
        THEN [pushed |-> <<>>, drawn |-> <<>>, threw |-> TRUE]
      ELSE IF MethodIs(d.method, "ping")
        THEN [pushed |-> invalid \o <<rpcResult(d.id, Obj([pong |-> Num(t)]))>>,
              drawn |-> <<>>, threw |-> FALSE]
      ELSE IF MethodIs(d.method, "initialize")
        THEN [pushed |-> invalid \o <<rpcResult(d.id, InitializeResult(d.params))>>,
              drawn |-> <<>>, threw |-> FALSE]
      ELSE IF MethodIs(d.method, "tools/list")
        THEN [pushed |->
                invalid \o <<rpcResult(d.id, Obj([tools |-> Arr(<<ToolDescriptor>>)]))>>,
              drawn |-> <<>>, threw |-> FALSE]
      ELSE IF MethodIs(d.method, "tools/call")
        THEN LET c == ToolsCall(d.id, d.params, r)
             IN  [pushed |-> invalid \o c.pushed, drawn |-> c.drawn, threw |-> c.threw]
      ELSE [pushed |-> invalid \o <<rpcError(d.id, -32601, "Method not found")>>,
            drawn |-> <<>>, threw |-> FALSE]

\* One iteration of the message loop: the responses it pushes, the values
\* randomInt returned in it, and whether an exception left it uncaught.
Dispatch(msg, t, r) ==
  LET d == Destructure(msg)
  IN  IF d.threw
        THEN [pushed |-> <<>>, drawn |-> <<>>, threw |-> TRUE]
      ELSE IF ~Truthy(d.method)
        THEN [pushed |-> <<rpcError(d.id, -32600, "Invalid Request")>>,
              drawn |-> <<>>, threw |-> FALSE]
      ELSE IF MethodIs(d.method, "ping")
        THEN [pushed |-> <<rpcResult(d.id, Obj([pong |-> Num(t)]))>>,
              drawn |-> <<>>, threw |-> FALSE]
      ELSE IF MethodIs(d.method, "initialize")
        THEN [pushed |-> <<rpcResult(d.id, InitializeResult(d.params))>>,
              drawn |-> <<>>, threw |-> FALSE]
      ELSE IF MethodIs(d.method, "tools/list")
        THEN [pushed |-> <<rpcResult(d.id, Obj([tools |-> Arr(<<ToolDescriptor>>)]))>>,
              drawn |-> <<>>, threw |-> FALSE]
      ELSE IF MethodIs(d.method, "tools/call")
        THEN ToolsCall(d.id, d.params, r)
      ELSE [pushed |-> <<rpcError(d.id, -32601, "Method not found")>>,
            drawn |-> <<>>, threw |-> FALSE]

\* const requests = Array.isArray(body) ? body : [body];
Requests(body) == IF IsArray(body) THEN body.a ELSE <<body>>

RECURSIVE Iterate(_, _, _, _, _)
\* The for-of loop from message i on; st.responses is the responses array,
\* st.drawn the randomInt values of each iteration so far.  An uncaught
\* exception leaves the loop and the handler (st.threw).
Iterate(requests, t, rs, i, st) ==
  IF i > Len(requests) THEN st
  ELSE LET out == Dispatch(requests[i], t, rs[i])
           st2 == [responses |-> st.responses \o out.pushed,
                   drawn |-> Append(st.drawn, out.drawn),
                   threw |-> out.threw]
       IN  IF out.threw THEN st2 ELSE Iterate(requests, t, rs, i + 1, st2)

RECURSIVE IterateUntilFailure(_, _, _, _, _)
\* a fault: the first failure entry ends the loop
IterateUntilFailure(requests, t, rs, i, st) ==
  IF i > Len(requests) THEN st
  ELSE LET out == Dispatch(requests[i], t, rs[i])
           st2 == [responses |-> st.responses \o out.pushed,
                   drawn |-> Append(st.drawn, out.drawn),
                   threw |-> out.threw]
       IN  IF out.threw \/ \E j \in 1..Len(out.pushed) : "error" \in DOMAIN out.pushed[j].f
             THEN st2
             ELSE IterateUntilFailure(requests, t, rs, i + 1, st2)

ForLoopUntilFailure(requests, t, rs) ==
  IterateUntilFailure(requests, t, rs, 1, [responses |-> <<>>, drawn |-> <<>>, threw |-> FALSE])

\* const responses = []; for (const msg of requests) { ... }
ForLoop(requests, t, rs) ==
  Iterate(requests, t, rs, 1, [responses |-> <<>>, drawn |-> <<>>, threw |-> FALSE])

\* a fault: the responses array is sent whatever the shape of the body
ResJsonArgAlwaysArray(body, responses) == Arr(responses)

\* Array.isArray(body) ? responses : responses[0]
ResJsonArg(body, responses) ==
  IF IsArray(body) THEN Arr(responses) ELSE responses[1]

(* --------------------------- request universe -------------------------- *)
\* An object holding the properties that are not undefined.
MkObj(all) ==
  Obj([key \in {x \in DOMAIN all : all[x] # Undefined} |-> all[key]])

Msg(id, method, params) ==
  MkObj([jsonrpc |-> Str("2.0"), id |-> id, method |-> method, params |-> params])

Ids == {Undefined, Null, Num(1), Str("a")}
FewIds == {Undefined, Num(1)}

VersionParams ==
  {Obj([protocolVersion |-> Str(v)]) : v \in {"2025-03-26", "2024-11-05", "1999-01-01"}}

\* params of tools/call sent as a request and as a notification
CallParams ==
  {Obj([name |-> Str("yesno"), arguments |-> Obj([prompt |-> Str("rain?")])]),
   Obj([name |-> Str("yesno"),
        arguments |-> Obj([prompt |-> Obj([toString |-> Num(1)])])])}

\* params of tools/call sent as a request only
RequestOnlyParams ==
  {Obj([name |-> Str("bogus")]),
   Obj([arguments |-> Obj([prompt |-> Str("rain?")])]),
   Obj([name |-> Str("yesno")]),
   Obj([name |-> Str("yesno"), arguments |-> Obj([prompt |-> Num(5)])]),
   Obj([name |-> Str("yesno"), arguments |-> Obj([prompt |-> Str("a\"b")])]),
   Obj([name |-> Str("yesno"), arguments |-> Obj([prompt |-> Num(0)])]),
   Obj([name |-> Str("yesno"), arguments |-> Obj([prompt |-> Bool(TRUE)])]),
   Obj([name |-> Str("yesno"), arguments |-> Obj([prompt |-> EmptyObj])]),
   Obj([name |-> Str("yesno"),
        arguments |-> Obj([prompt |-> Arr(<<Num(1), Num(2)>>)])]),
   Str("p")}

\* messages whose id or method is no string
OddMessages ==
  {Msg(Num(1), Num(5), Undefined), Msg(Bool(TRUE), Str("ping"), Undefined)}

ObjectMessages ==
  {Msg(id, m, Undefined) : id \in Ids, m \in {Undefined, Str("ping")}}
  \cup {Msg(id, Str(m), Undefined) : id \in FewIds, m \in {"foo", "tools/call"}}
  \cup {Msg(Num(1), Str(m), Undefined) :
          m \in {"", "Ping", "tools/list", "initialize"}}
  \cup {Msg(Num(1), Str("initialize"), p) : p \in VersionParams}
  \cup {Msg(id, Str("tools/call"), p) : id \in FewIds, p \in CallParams}
  \cup {Msg(Num(1), Str("tools/call"), p) : p \in RequestOnlyParams}
  \cup OddMessages

\* members of an array body that are not objects
OtherMembers == {Null, Num(7), Str("x"), Arr(<<>>)}

Messages == ObjectMessages \cup OtherMembers

\* members of the arrays of two and more: one message of each kind the loop
\* tells apart, and members that are no objects
BatchMembers ==
  {Msg(Undefined, Undefined, Undefined),
   Msg(Num(1), Undefined, Undefined),
   Msg(Undefined, Str("ping"), Undefined),
   Msg(Num(1), Str("ping"), Undefined),
   Msg(Str("a"), Str("ping"), Undefined),
   Msg(Num(1), Str("foo"), Undefined),
   Msg(Num(1), Str("tools/list"), Undefined),
   Msg(Num(1), Str("tools/call"), Undefined),
   Msg(Num(1), Str("tools/call"), Obj([name |-> Str("bogus")])),
   Null,
   Num(7),
   Arr(<<>>)}
  \cup {Msg(id, Str("tools/call"), p) : id \in FewIds, p \in CallParams}

\* express.json() hands the handler an object or an array: an object, an
\* array of no or one member, or an array of up to MaxBatch members.
Bodies ==
  ObjectMessages
  \cup {Arr(a) : a \in UNION {[1..n -> Messages] : n \in 0..1}}
  \cup {Arr(a) : a \in UNION {[1..n -> BatchMembers] : n \in 2..MaxBatch}}

Clock == 1..MaxClock

\* req.query.prompt as the query parser leaves it: absent, a string, a
\* repeated parameter (an array) or a bracketed one (an object)
QueryPrompts ==
  {Undefined, Str(""), Str("rain?"), Str("a\"b"),
   Arr(<<Str("a"), Str("b")>>), Obj([x |-> Str("y")])}

(* ------------------------------ GET /answer ---------------------------- *)
\* const prompt = (req.query.prompt || "").toString();
\* res.json({ answer: yesNoRandom(), prompt });
AnswerBody(query, r) ==
  LET prompt == JsToString(OrElse(query, Str("")))
  IN  [ok |-> prompt.ok,
       body |-> Obj([answer |-> Str(yesNoRandom(r)), prompt |-> Str(prompt.s)])]

(* --------------------------- the SSE channel --------------------------- *)
\* connections a behaviour opens
MaxConns == 2
\* the wall clock runs from 0 to MaxTime ms, in steps of at most StepMs
MaxTime == 30000
StepMs == 7500
\* runs of the close listener of one connection
MaxTeardowns == 2

Conns == 1..MaxConns

\* A connection: state "none" (no request yet), "open" (the handler has run)
\* or "closed" (the close listener has run); the scheme and Host header of
\* its request; log, what the handler and its callbacks did, in order: the
\* calls on the response and the timer and the computing of the base URL,
\* each entry with the time it happened at; timer, the state
\* of the keepAlive interval, and due, when it fires next.
NoConn ==
  [state |-> "none", protocol |-> "", host |-> "", log |-> <<>>,
   timer |-> "none", due |-> 0]

SseIdle ==
  /\ publicBaseUrl = Undefined
  /\ time = 0
  /\ sse = [c \in Conns |-> NoConn]

(* ------------------------------- routing ------------------------------ *)
\* The handler a request ends in: the routes are tried in the order they are
\* registered, a path matches with or without a trailing slash (routing is
\* not strict), and what no route takes falls to the app.use at the end.
Handler(r) ==
  CASE r \in {"POST /mcp", "POST /mcp/"} -> "mcp"
    [] r = "GET /answer" -> "answer"
    [] r = "GET /sse" -> "sse"
    [] r = "POST /invocations" -> "invocations"
    [] OTHER -> "fallback"

\* req.path
PathOf(r) ==
  CASE r \in {"GET /mcp", "POST /mcp"} -> "/mcp"
    [] r = "POST /mcp/" -> "/mcp/"
    [] r = "POST /" -> "/"
    [] r = "POST /sse" -> "/sse"
    [] r = "POST /sse/" -> "/sse/"
    [] OTHER -> "/"

\* res.status(404).json({ error: "Not Found", path: req.path })
NotFoundBody(r) == Obj([error |-> Str("Not Found"), path |-> Str(PathOf(r))])

\* the other paths a client posts JSON-RPC to, and the bodies it posts there
AliasRoutes == {"POST /mcp/", "POST /", "POST /sse", "POST /sse/"}

ProbeBodies ==
  {Msg(Num(1), Str("ping"), Undefined),
   Msg(Num(1), Str("tools/call"),
       Obj([name |-> Str("yesno"), arguments |-> Obj([prompt |-> Str("rain?")])])),
   Arr(<<Msg(Num(1), Str("tools/list"), Undefined),
         Msg(Undefined, Str("ping"), Undefined)>>)}

(* --------------------------- POST /invocations ------------------------- *)
\* Math.random(), in hundredths
MathRandoms == {0, 49, 50, 99}

\* req.body of a tool invocation
InvocationBodies ==
  {Obj([name |-> Str("yesno"), arguments |-> Obj([prompt |-> Str("rain?")])]),
   Obj([name |-> Str("yesno"), arguments |-> Obj([prompt |-> Num(5)])]),
   Obj([name |-> Str("yesno")]),
   Obj([name |-> Str("bogus")]),
   EmptyObj}

\* The handler of POST /invocations; u is what Math.random() returns.
Invocation(body, u) ==
  LET name == Get(body, "name")
      args == Get(body, "arguments")
      prompt == OrElse(OptGet(args, "prompt"), Str(""))
      answer == IF u < 50 THEN "yes" ELSE "no"
  IN  IF name = Str("yesno")
        THEN [status |-> 200, drawn |-> <<<<u>>>>,
              body |-> Obj([answer |-> Str(answer), prompt |-> prompt])]
        ELSE [status |-> 400, drawn |-> <<<<>>>>,
              body |-> Obj([error |-> Str("Unknown tool")])]

(* ------------------------------ behaviour ------------------------------ *)
\* A parsed POST waits for its handler; nothing has been sent.
InitPost ==
  /\ route = "POST /mcp"
  /\ reqBody \in Bodies
  /\ reqQuery = Undefined
  /\ now \in Clock

\* A GET /answer waits for its handler.
InitAnswer ==
  /\ route = "GET /answer"
  /\ reqBody = Undefined
  /\ reqQuery \in QueryPrompts
  /\ now = 0

\* A JSON-RPC POST on another path waits for its handler.
InitAlias ==
  /\ route \in AliasRoutes
  /\ reqBody \in ProbeBodies
  /\ reqQuery = Undefined
  /\ now \in Clock

\* A GET on the JSON-RPC path waits for its handler.
InitGetMcp ==
  /\ route = "GET /mcp"
  /\ reqBody = EmptyObj
  /\ reqQuery = Undefined
  /\ now = 0

\* A tool invocation waits for its handler.
InitInvocation ==
  /\ route = "POST /invocations"
  /\ reqBody \in InvocationBodies
  /\ reqQuery = Undefined
  /\ now = 0

Init ==
  /\ InitPost \/ InitAnswer \/ InitAlias \/ InitGetMcp \/ InitInvocation
  /\ rnd = <<>>
  /\ rng = "none"
  /\ resStatus = 0
  /\ resBody = Undefined
  /\ SseIdle

\* a fault: the dispatcher serves a client only while an SSE connection is
\* open, and answers 409 otherwise
PostMcpNeedsSession ==
  /\ Handler(route) = "mcp"
  /\ resStatus = 0
  /\ \E rs \in [1..Len(Requests(reqBody)) -> {0, 1}] :
       LET out == ForLoop(Requests(reqBody), now, rs)
           live == \E c \in DOMAIN sse : sse[c].state = "open"
       IN  /\ rnd' = out.drawn
           /\ rng' = IF \E i \in 1..Len(out.drawn) : out.drawn[i] # <<>>
                      THEN "crypto.randomInt" ELSE "none"
           /\ resStatus' = IF live THEN 200 ELSE 409
           /\ resBody' = IF live THEN ResJsonArg(reqBody, out.responses)
                         ELSE Undefined
  /\ UNCHANGED <<route, reqBody, reqQuery, now>>
  /\ UNCHANGED sseVars

\* app.post("/mcp", ...): the whole handler, ending in res.json(...).  An
\* exception that leaves the handler is answered 500 by the framework.
PostMcp ==
  /\ Handler(route) = "mcp"
  /\ resStatus = 0
  /\ \E rs \in [1..Len(Requests(reqBody)) -> {0, 1}] :
       LET out == ForLoop(Requests(reqBody), now, rs)
       IN  /\ rnd' = out.drawn
           /\ rng' = IF \E i \in 1..Len(out.drawn) : out.drawn[i] # <<>>
                      THEN "crypto.randomInt" ELSE "none"
           /\ resStatus' = IF out.threw THEN 500 ELSE 200
           /\ resBody' = IF out.threw THEN Undefined
                         ELSE ResJsonArg(reqBody, out.responses)
  /\ UNCHANGED <<route, reqBody, reqQuery, now>>
  /\ UNCHANGED sseVars

\* app.get("/answer", ...)
GetAnswer ==
  /\ Handler(route) = "answer"
  /\ resStatus = 0
  /\ \E r \in {0, 1} :
       LET out == AnswerBody(reqQuery, r)
       IN  /\ rnd' = IF out.ok THEN <<<<r>>>> ELSE <<<<>>>>
           /\ rng' = IF out.ok THEN "crypto.randomInt" ELSE "none"
           /\ resStatus' = IF out.ok THEN 200 ELSE 500
           /\ resBody' = IF out.ok THEN out.body ELSE Undefined
  /\ UNCHANGED <<route, reqBody, reqQuery, now>>
  /\ UNCHANGED sseVars

\* app.post("/invocations", ...)
PostInvocations ==
  /\ Handler(route) = "invocations"
  /\ resStatus = 0
  /\ \E u \in MathRandoms :
       LET out == Invocation(reqBody, u)
       IN  /\ rnd' = out.drawn
           /\ rng' = IF out.status = 200 THEN "Math.random" ELSE "none"
           /\ resStatus' = out.status
           /\ resBody' = out.body
  /\ UNCHANGED <<route, reqBody, reqQuery, now>>
  /\ UNCHANGED sseVars

\* app.use((req, res) => ...): the 404 fallback
NotFound ==
  /\ Handler(route) = "fallback"
  /\ resStatus = 0
  /\ resStatus' = 404
  /\ resBody' = NotFoundBody(route)
  /\ UNCHANGED <<route, reqBody, reqQuery, now, rnd, rng>>
  /\ UNCHANGED sseVars

Next == PostMcp \/ GetAnswer \/ PostInvocations \/ NotFound

Spec == Init /\ [][Next]_vars

(* ------------------------------- GET /sse ------------------------------ *)
\* a fault: the interval of an earlier revision
KeepAliveMsSlow == 30000

\* setInterval(..., 15000)
KeepAliveMs == 15000

Op(op, data, t) == [op |-> op, data |-> data, at |-> t]

\* a fault: the base is always derived from the request
SseBaseFromRequest(env, protocol, host) == protocol \o "://" \o host

\* process.env.PUBLIC_BASE_URL || `${req.protocol}://${req.get("host")}`
SseBase(env, protocol, host) ==
  IF Truthy(env) THEN env.s ELSE protocol \o "://" \o host

\* JSON.stringify(endpointEvent)
EndpointEventJson(base) ==
  "{\"uri\":" \o JsonQuote(base \o "/mcp")
    \o ",\"protocol\":\"jsonrpc-2.0\",\"version\":\"2025-03-26\"}"

\* a fault: the headers are flushed after the announcement
SseHandlerLateFlush(env, protocol, host, t) ==
  [state |-> "open", protocol |-> protocol, host |-> host,
   log |->
     <<Op("setHeader", "Content-Type: text/event-stream; charset=utf-8", t),
       Op("setHeader", "Cache-Control: no-cache", t),
       Op("setHeader", "Connection: keep-alive", t),
       Op("base", SseBase(env, protocol, host), t),
       Op("write", "event: endpoint\n", t),
       Op("write",
          "data: " \o EndpointEventJson(SseBase(env, protocol, host)) \o "\n\n", t),
       Op("flushHeaders", "", t),
       Op("setInterval", "", t),
       Op("on close", "", t)>>,
   timer |-> "live",
   due |-> t + KeepAliveMs]

\* The handler of GET /sse, run at time t.
SseHandler(env, protocol, host, t) ==
  [state |-> "open", protocol |-> protocol, host |-> host,
   log |->
     <<Op("setHeader", "Content-Type: text/event-stream; charset=utf-8", t),
       Op("setHeader", "Cache-Control: no-cache", t),
       Op("setHeader", "Connection: keep-alive", t),
       Op("flushHeaders", "", t),
       Op("base", SseBase(env, protocol, host), t),
       Op("write", "event: endpoint\n", t),
       Op("write",
          "data: " \o EndpointEventJson(SseBase(env, protocol, host)) \o "\n\n", t),
       Op("setInterval", "", t),
       Op("on close", "", t)>>,
   timer |-> "live",
   due |-> t + KeepAliveMs]

\* The keepAlive callback, run at time t.
KeepAlive(conn, t) ==
  [conn EXCEPT !.log = Append(@, Op("write", ": ping " \o ToString(t) \o "\n\n", t)),
               !.due = @ + KeepAliveMs]

\* a fault: the close listener leaves the interval running
CloseListenerNoClear(conn, t, endThrows) ==
  [conn EXCEPT !.state = "closed",
               !.log = Append(@, Op("end", "", t))]

\* a fault: res.end() is called outside a try, and what it throws leaves
\* the listener
CloseListenerNoCatch(conn, t, endThrows) ==
  [conn EXCEPT !.state = "closed",
               !.timer = "cleared",
               !.log = Append(Append(@, Op("clearInterval", "", t)), Op("end", "", t))
                         \o (IF endThrows THEN <<Op("uncaught", "", t)>> ELSE <<>>)]

\* The close listener: clearInterval(keepAlive); try { res.end(); } catch (_) {}.
\* endThrows: whether res.end() throws, which it may when the response is
\* torn down already; the catch swallows it.  clearInterval of a timer that
\* is cleared does nothing.
CloseListener(conn, t, endThrows) ==
  [conn EXCEPT !.state = "closed",
               !.timer = "cleared",
               !.log = Append(Append(@, Op("clearInterval", "", t)), Op("end", "", t))]

\* the environment and the requests of the model
PublicBaseUrls == {Undefined, Str(""), Str("https://yesno.example")}
Protocols == {"http", "https"}
Hosts == {"localhost:3000"}

\* the timers that are running
Live == {c \in Conns : sse[c].timer = "live"}

\* the earliest of a non-empty set of times
Earliest(S) == CHOOSE x \in S : \A y \in S : x <= y

InitSse ==
  /\ route = "GET /sse"
  /\ reqBody = Undefined
  /\ reqQuery = Undefined
  /\ now = 0
  /\ rnd = <<>>
  /\ rng = "none"
  /\ resStatus = 0
  /\ resBody = Undefined
  /\ publicBaseUrl \in PublicBaseUrls
  /\ time = 0
  /\ sse = [c \in Conns |-> NoConn]

\* A client connects: app.get("/sse", ...) runs to its end.  Connections
\* are numbered in the order they arrive.
SseConnect ==
  \E c \in Conns, protocol \in Protocols, host \in Hosts :
    /\ route = "GET /sse"
    /\ sse[c].state = "none"
    /\ \A b \in 1..(c - 1) : sse[b].state # "none"
    /\ sse' = [sse EXCEPT ![c] = SseHandler(publicBaseUrl, protocol, host, time)]
    /\ UNCHANGED <<publicBaseUrl, time>>
    /\ UNCHANGED httpVars

\* The interval of a connection fires.
SseKeepAlive ==
  \E c \in Conns :
    /\ sse[c].timer = "live"
    /\ sse[c].due <= time
    /\ sse' = [sse EXCEPT ![c] = KeepAlive(sse[c], time)]
    /\ UNCHANGED <<publicBaseUrl, time>>
    /\ UNCHANGED httpVars

\* a fault: one disconnect tears down every open connection
SseCloseAll ==
  /\ \E c \in DOMAIN sse : sse[c].state = "open"
  /\ sse' = [c \in DOMAIN sse |->
               IF sse[c].state = "open"
                 THEN [sse[c] EXCEPT
                         !.state = "closed", !.timer = "cleared",
                         !.log = @ \o <<[op |-> "clearInterval", data |-> "", at |-> time],
                                        [op |-> "end", data |-> "", at |-> time]>>]
                 ELSE sse[c]]
  /\ UNCHANGED <<publicBaseUrl, time>>
  /\ UNCHANGED httpVars

\* The request of a connection emits "close": the listener runs on a
\* response that is still open, where res.end() returns.
SseClose ==
  \E c \in Conns :
    /\ sse[c].state = "open"
    /\ sse' = [sse EXCEPT ![c] = CloseListener(sse[c], time, FALSE)]
    /\ UNCHANGED <<publicBaseUrl, time>>
    /\ UNCHANGED httpVars

\* Time passes, up to the next step or the next firing of an interval: a
\* callback that is due runs before the clock moves on.
SseAdvance ==
  /\ route = "GET /sse"
  /\ time < MaxTime
  /\ \A c \in Live : sse[c].due > time
  /\ time' = Earliest({time + StepMs, MaxTime} \cup {sse[c].due : c \in Live})
  /\ UNCHANGED <<publicBaseUrl, sse>>
  /\ UNCHANGED httpVars

NextSse == SseConnect \/ SseKeepAlive \/ SseClose \/ SseAdvance

SpecSse == InitSse /\ [][NextSse]_vars

(* ------------------------------ double teardown ------------------------ *)
\* how often the close listener of a connection has run
Teardowns(c) == Len(SelectSeq(sse[c].log, LAMBDA o : o.op = "end"))

InitTeardown ==
  /\ InitSse
  /\ publicBaseUrl = Undefined

\* The close listener of a connection runs again, in the turn after its
\* last run, on a response that is ended already: res.end() returns or
\* throws.  One connection of a behaviour is torn down repeatedly.
SseCloseAgain ==
  \E c \in Conns, endThrows \in BOOLEAN :
    /\ sse[c].state = "closed"
    /\ Teardowns(c) < MaxTeardowns
    /\ \A d \in Conns \ {c} : Teardowns(d) <= 1
    /\ sse[c].log[Len(sse[c].log)].at = time
    /\ sse' = [sse EXCEPT ![c] = CloseListener(sse[c], time, endThrows)]
    /\ UNCHANGED <<publicBaseUrl, time>>
    /\ UNCHANGED httpVars

NextTeardown ==
  SseConnect \/ SseKeepAlive \/ SseClose \/ SseCloseAgain \/ SseAdvance

SpecTeardown == InitTeardown /\ [][NextTeardown]_vars

(* ------------------- requests and connections together ----------------- *)
\* The server over many requests: POSTs to /mcp arrive one after another, in
\* any order with the connects and disconnects of SSE clients.  A handler
\* runs to completion inside one turn of the event loop, so two POSTs in
\* flight at once are served one whole handler after the other, in either
\* order.
InitMany ==
  /\ route = "POST /mcp"
  /\ reqBody \in ProbeBodies
  /\ reqQuery = Undefined
  /\ now \in Clock
  /\ rnd = <<>>
  /\ rng = "none"
  /\ resStatus = 0
  /\ resBody = Undefined
  /\ SseIdle

\* The next request reaches the router: a POST /mcp or a GET /sse.
Arrive ==
  /\ resStatus # 0 \/ route = "GET /sse"
  /\ \/ /\ route' = "POST /mcp"
        /\ reqBody' \in ProbeBodies
        /\ now' \in Clock
     \/ /\ route' = "GET /sse"
        /\ reqBody' = Undefined
        /\ now' = 0
  /\ reqQuery' = Undefined
  /\ rnd' = <<>>
  /\ rng' = "none"
  /\ resStatus' = 0
  /\ resBody' = Undefined
  /\ UNCHANGED sseVars

NextMany == Arrive \/ PostMcp \/ SseConnect \/ SseClose

SpecMany == InitMany /\ [][NextMany]_vars

(* ----------------------- what a client observes ------------------------ *)
\* the POST handler has answered
Handled == route = "POST /mcp" /\ resStatus # 0

\* the messages of the handled body, in order
Sent == IF IsArray(reqBody) THEN reqBody.a ELSE <<reqBody>>

\* a message that carries a present, non-null id (a request)
HasId(msg) == msg.k = "obj" /\ "id" \in DOMAIN msg.f /\ msg.f.id # Null

MethodOf(msg) ==
  IF msg.k = "obj" /\ "method" \in DOMAIN msg.f THEN msg.f.method ELSE Undefined

ParamsOf(msg) ==
  IF msg.k = "obj" /\ "params" \in DOMAIN msg.f THEN msg.f.params ELSE Undefined

\* the response entries on the wire, in order
Entries ==
  CASE resBody.k = "arr" -> resBody.a
    [] resBody.k = "obj" -> <<resBody>>
    [] OTHER -> <<>>

IsFailure(e, id, code, message) ==
  /\ e.k = "obj"
  /\ DOMAIN e.f = {"jsonrpc", "id", "error"}
  /\ e.f.id = id
  /\ e.f.error = Obj([code |-> Num(code), message |-> Str(message)])

IsSuccess(e, id) ==
  /\ e.k = "obj"
  /\ DOMAIN e.f = {"jsonrpc", "id", "result"}
  /\ e.f.id = id

Requesters == {i \in 1..Len(Sent) : HasId(Sent[i])}

(* -------------------------------- C1 ----------------------------------- *)
\* C1: a message whose id is absent or null never produces a response entry:
\* the response holds exactly as many entries as the body holds messages with
\* a non-null id.
C1_NotificationsSilent ==
  Handled => Len(Entries) = Cardinality(Requesters)

(* -------------------------------- C2 ----------------------------------- *)
\* C2: an array body of N messages that all carry a non-null id is answered
\* by an array of exactly N responses, the i-th carrying the i-th message's id.
C2_OnePerRequestInOrder ==
  (Handled /\ IsArray(reqBody) /\ Requesters = 1..Len(Sent)) =>
    /\ IsArray(resBody)
    /\ Len(resBody.a) = Len(Sent)
    /\ \A i \in 1..Len(Sent) : Get(resBody.a[i], "id") = Sent[i].f.id

C2_Witness ==
  /\ Handled /\ IsArray(reqBody) /\ Len(Sent) = 2 /\ Requesters = {1, 2}
  /\ Sent[1].f.id # Sent[2].f.id
  /\ MethodOf(Sent[1]) = Undefined
  /\ MethodOf(Sent[2]) = Str("ping")

(* -------------------------------- C3 ----------------------------------- *)
\* C3: a lone message object with a non-null id is answered by a single
\* response object, never an array; an array body is never answered by a bare
\* object.
C3_ShapeMirrorsBody ==
  Handled =>
    /\ (~IsArray(reqBody) /\ HasId(reqBody)) => resBody.k = "obj"
    /\ IsArray(reqBody) => resBody.k # "obj"

C3_Witness ==
  Handled /\ ~IsArray(reqBody) /\ HasId(reqBody) /\ resBody.k = "obj"

(* -------------------------------- C4 ----------------------------------- *)
\* C4: an array body whose members are all notifications (the empty array
\* included) is answered with HTTP 202 and no body.
C4_AllNotificationsAccepted ==
  (Handled /\ IsArray(reqBody) /\ Requesters = {}) =>
    (resStatus = 202 /\ resBody = Undefined)

(* -------------------------------- C5 ----------------------------------- *)
\* C5: a lone notification object is answered with the empty-body
\* acknowledgement and no response object.
C5_LoneNotificationAccepted ==
  (Handled /\ ~IsArray(reqBody) /\ ~HasId(reqBody)) =>
    (resStatus = 202 /\ resBody = Undefined)

(* -------------------------------- C6 ----------------------------------- *)
\* the response a lone POST of msg gets under clock t when randomInt returns r
LoneResponse(msg, t, r) ==
  ResJsonArg(msg, ForLoop(Requests(msg), t, <<r>>).responses)

\* C6: in a batch, the response of every request is the response that request
\* gets when it is sent alone under the same clock and random draw, whatever
\* its siblings are.
C6_ErrorsAreLocal ==
  (Handled /\ IsArray(reqBody)) =>
    \A i \in Requesters :
      /\ i <= Len(Entries)
      /\ i <= Len(rnd)
      /\ \E r \in {0, 1} :
           /\ rnd[i] \in {<<>>, <<r>>}
           /\ Entries[i] = LoneResponse(Sent[i], now, r)

\* a request that succeeds behind a sibling that faults in tools/call
C6_Witness ==
  /\ Handled /\ IsArray(reqBody) /\ Len(Sent) = 2 /\ Requesters = {1, 2}
  /\ IsFailure(Entries[1], Sent[1].f.id, -32603, "Internal error")
  /\ MethodOf(Sent[2]) = Str("tools/call")
  /\ IsSuccess(Entries[2], Sent[2].f.id)
  /\ rnd[2] = <<1>>

(* -------------------------------- C7 ----------------------------------- *)
\* C7: a message without a method field that carries a non-null id yields
\* exactly one entry, the Failure -32600 "Invalid Request" with the same id:
\* no other branch adds an entry for it.
C7_InvalidRequest ==
  Handled =>
    \A i \in Requesters :
      MethodOf(Sent[i]) = Undefined =>
        /\ Len(Entries) = Len(Sent)
        /\ IsFailure(Entries[i], Sent[i].f.id, -32600, "Invalid Request")

C7_Witness ==
  /\ Handled /\ IsArray(reqBody) /\ Len(Sent) = 2
  /\ HasId(Sent[1]) /\ MethodOf(Sent[1]) = Undefined
  /\ IsFailure(Entries[1], Sent[1].f.id, -32600, "Invalid Request")

(* -------------------------------- C8 ----------------------------------- *)
KnownMethods == {"ping", "initialize", "tools/list", "tools/call"}

\* C8 as stated: a request whose method is any string other than the four
\* known names yields Failure -32601 "Method not found" with its id.
C8_AnyOtherString ==
  Handled =>
    \A i \in Requesters :
      (MethodOf(Sent[i]).k = "str" /\ MethodOf(Sent[i]).s \notin KnownMethods) =>
        /\ i <= Len(Entries)
        /\ IsFailure(Entries[i], Sent[i].f.id, -32601, "Method not found")

\* C8: a request whose method is a non-empty string other than exactly
\* "ping", "initialize", "tools/list" or "tools/call" yields Failure -32601
\* "Method not found" with its id echoed; the match is case-sensitive.
C8_MethodNotFound ==
  Handled =>
    \A i \in Requesters :
      (/\ MethodOf(Sent[i]).k = "str"
       /\ MethodOf(Sent[i]).s # ""
       /\ MethodOf(Sent[i]).s \notin KnownMethods) =>
        /\ i <= Len(Entries)
        /\ IsFailure(Entries[i], Sent[i].f.id, -32601, "Method not found")

C8_Witness ==
  /\ Handled /\ ~IsArray(reqBody) /\ HasId(reqBody)
  /\ MethodOf(reqBody) = Str("Ping")
  /\ IsFailure(resBody, reqBody.f.id, -32601, "Method not found")

(* -------------------------------- C9 ----------------------------------- *)
\* params.name as the client sent it (undefined when params or name is missing)
ToolNameOf(msg) ==
  IF ParamsOf(msg).k = "obj" /\ "name" \in DOMAIN ParamsOf(msg).f
    THEN ParamsOf(msg).f.name
    ELSE Undefined

\* C9: a tools/call request whose params.name is not "yesno" (another name,
\* no name, no params) yields Failure -32601 "Unknown tool" with its id; no
\* answer is drawn and the POST is answered normally.
C9_UnknownTool ==
  Handled =>
    \A i \in Requesters :
      (MethodOf(Sent[i]) = Str("tools/call") /\ ToolNameOf(Sent[i]) # Str("yesno")) =>
        /\ resStatus = 200
        /\ i <= Len(Entries) /\ i <= Len(rnd)
        /\ IsFailure(Entries[i], Sent[i].f.id, -32601, "Unknown tool")
        /\ rnd[i] = <<>>

\* a call without params and a call of tool "bogus", both refused
C9_Witness ==
  /\ Handled /\ IsArray(reqBody) /\ Len(Sent) = 2 /\ Requesters = {1, 2}
  /\ MethodOf(Sent[1]) = Str("tools/call") /\ ParamsOf(Sent[1]) = Undefined
  /\ MethodOf(Sent[2]) = Str("tools/call") /\ ToolNameOf(Sent[2]) = Str("bogus")
  /\ IsFailure(Entries[1], Sent[1].f.id, -32601, "Unknown tool")
  /\ IsFailure(Entries[2], Sent[2].f.id, -32601, "Unknown tool")

(* -------------------------------- C10 ---------------------------------- *)
\* the versions the server answers with, most preferred first
SupportedVersions == <<ProtocolVersion>>

DefaultVersion == SupportedVersions[1]

\* protocolVersion as the client proposed it (undefined when missing)
ProposalOf(msg) ==
  IF ParamsOf(msg).k = "obj" /\ "protocolVersion" \in DOMAIN ParamsOf(msg).f
    THEN ParamsOf(msg).f.protocolVersion
    ELSE Undefined

YesNoCallers ==
  {i \in Requesters :
     MethodOf(Sent[i]) = Str("tools/call") /\ ToolNameOf(Sent[i]) = Str("yesno")}

\* params.arguments.prompt as the client sent it (undefined when missing)
PromptOf(msg) ==
  LET args == IF ParamsOf(msg).k = "obj" /\ "arguments" \in DOMAIN ParamsOf(msg).f
                THEN ParamsOf(msg).f.arguments
                ELSE Undefined
  IN  IF args.k = "obj" /\ "prompt" \in DOMAIN args.f THEN args.f.prompt
      ELSE Undefined

\* the texts a prompt of the model is reported as
PromptTexts == {"", "rain?", "a\"b", "5", "true", "1,2", "[object Object]"}

\* e is a Success for id whose result is one text block and isError false
IsToolResult(e, id, texts) ==
  /\ IsSuccess(e, id)
  /\ e.f.result.k = "obj"
  /\ DOMAIN e.f.result.f = {"content", "isError"}
  /\ e.f.result.f.isError = Bool(FALSE)
  /\ e.f.result.f.content.k = "arr"
  /\ Len(e.f.result.f.content.a) = 1
  /\ \E t \in texts : e.f.result.f.content.a[1] = Obj([type |-> Str("text"), text |-> Str(t)])

\* the JSON encodings of { answer, prompt } with answer "yes" or "no"
AnswerTexts(prompts) ==
  {StringifyAnswer(a, p) : a \in {"yes", "no"}, p \in prompts}

\* C11: a tools/call request for "yesno" that does not fault yields Success
\* with its id, isError false and exactly one text block whose text is the
\* JSON encoding of { answer, prompt } with answer exactly "yes" or "no".
C11_YesNoResult ==
  Handled =>
    \A i \in YesNoCallers :
      /\ i <= Len(Entries)
      /\ \/ IsFailure(Entries[i], Sent[i].f.id, -32603, "Internal error")
         \/ IsToolResult(Entries[i], Sent[i].f.id, AnswerTexts(PromptTexts))

\* a call answered "no" whose prompt holds a character JSON escapes
C11_Witness ==
  /\ Handled /\ ~IsArray(reqBody) /\ YesNoCallers = {1}
  /\ PromptOf(reqBody) = Str("a\"b")
  /\ IsToolResult(resBody, reqBody.f.id, {"{\"answer\":\"no\",\"prompt\":\"a\\\"b\"}"})

(* -------------------------------- C12 ---------------------------------- *)
\* the prompt the claim has reported: the string itself, "" for anything else
ClaimedPrompt(msg) ==
  IF PromptOf(msg).k = "str" THEN PromptOf(msg).s ELSE ""

\* C12: a tools/call for "yesno" reports params.arguments.prompt when it is a
\* string and "" when it is missing or not a string, and never fails because
\* of the prompt.
C12_PromptCoercion ==
  Handled =>
    \A i \in YesNoCallers :
      /\ i <= Len(Entries)
      /\ IsToolResult(Entries[i], Sent[i].f.id, AnswerTexts({ClaimedPrompt(Sent[i])}))

(* -------------------------------- C13 ---------------------------------- *)
\* the answer a tools/call Success reports ("" when e is no such Success)
AnswerOfEntry(e) ==
  IF IsToolResult(e, e.f.id, AnswerTexts(PromptTexts))
    THEN IF IsToolResult(e, e.f.id, {StringifyAnswer("yes", p) : p \in PromptTexts})
           THEN "yes" ELSE "no"
    ELSE ""

\* the prompts a call is repeated with
PromptVariants ==
  {Undefined, Str(""), Str("rain?"), Str("a\"b"), Num(5), Bool(TRUE), EmptyObj}

\* the call msg with its prompt replaced by p
WithPrompt(msg, p) ==
  Msg(msg.f.id, Str("tools/call"),
      Obj([name |-> Str("yesno"), arguments |-> MkObj([prompt |-> p])]))

\* C13: the prompt never influences the answer.  Whatever answer a call (or
\* a GET /answer) got, the same invocation with any other prompt and the
\* same output of the random source gets the same answer.
C13_PromptIgnored ==
  /\ Handled =>
       \A i \in YesNoCallers : \A r \in {0, 1} :
         (i <= Len(Entries) /\ i <= Len(rnd) /\ rnd[i] = <<r>>) =>
           \A p \in PromptVariants :
             AnswerOfEntry(LoneResponse(WithPrompt(Sent[i], p), now, r))
               = AnswerOfEntry(Entries[i])
  /\ (route = "GET /answer" /\ resStatus = 200) =>
       \A r \in {0, 1} :
         rnd = <<<<r>>>> =>
           \A q \in QueryPrompts :
             AnswerBody(q, r).body.f.answer = resBody.f.answer

\* a call with a prompt answered "no" on the draw 1
C13_Witness ==
  /\ Handled /\ ~IsArray(reqBody) /\ YesNoCallers = {1}
  /\ PromptOf(reqBody) = Str("rain?")
  /\ rnd = <<<<1>>>>
  /\ AnswerOfEntry(resBody) = "no"

(* -------------------------------- C14 ---------------------------------- *)
\* a prompt whose conversion to text throws: an object that owns "toString"
PromptFaults(msg) ==
  PromptOf(msg).k = "obj" /\ "toString" \in DOMAIN PromptOf(msg).f

\* C14: a fault raised while a tools/call request is handled is caught in the
\* branch: the request gets Failure -32603 "Internal error" with its id, and
\* the POST is answered normally with one entry per message.
C14_FaultCaught ==
  Handled =>
    \A i \in YesNoCallers :
      PromptFaults(Sent[i]) =>
        /\ resStatus = 200
        /\ Len(Entries) = Len(Sent)
        /\ IsFailure(Entries[i], Sent[i].f.id, -32603, "Internal error")

\* a faulting call in a batch, followed by a ping that is answered
C14_Witness ==
  /\ Handled /\ IsArray(reqBody) /\ Len(Sent) = 2 /\ Requesters = {1, 2}
  /\ 1 \in YesNoCallers /\ PromptFaults(Sent[1])
  /\ IsFailure(Entries[1], Sent[1].f.id, -32603, "Internal error")
  /\ MethodOf(Sent[2]) = Str("ping")
  /\ IsSuccess(Entries[2], Sent[2].f.id)

(* -------------------------------- C15 ---------------------------------- *)
\* C15: the dispatcher is total.  For every parsed body no run of the loop
\* raises, whatever the random source returns, and the answer is a 200 or a
\* 202, never a 5xx.
C15_Total ==
  /\ (route = "POST /mcp" /\ resStatus = 0) =>
       \A rs \in [1..Len(Requests(reqBody)) -> {0, 1}] :
         ~ForLoop(Requests(reqBody), now, rs).threw
  /\ Handled => resStatus \in {200, 202}

\* a batch of a null and a nested array, answered 200
C15_Witness ==
  /\ Handled /\ IsArray(reqBody) /\ Len(Sent) = 2
  /\ Sent[1] = Null /\ Sent[2] = Arr(<<>>)
  /\ resStatus = 200

(* -------------------------------- C16 ---------------------------------- *)
\* d is the descriptor of the claim: name "yesno" and an inputSchema of type
\* "object" with a string property prompt that is listed as required
IsClaimedDescriptor(d) ==
  /\ d.k = "obj"
  /\ Get(d, "name") = Str("yesno")
  /\ Get(Get(d, "inputSchema"), "type") = Str("object")
  /\ Get(Get(Get(Get(d, "inputSchema"), "properties"), "prompt"), "type") = Str("string")
  /\ Get(Get(d, "inputSchema"), "required") = Arr(<<Str("prompt")>>)

\* C16: tools/list returns a Success whose tools catalog has exactly one
\* element, the descriptor above.
C16_ToolCatalog ==
  Handled =>
    \A i \in Requesters :
      MethodOf(Sent[i]) = Str("tools/list") =>
        /\ i <= Len(Entries)
        /\ IsSuccess(Entries[i], Sent[i].f.id)
        /\ Get(Entries[i].f.result, "tools").k = "arr"
        /\ Len(Get(Entries[i].f.result, "tools").a) = 1
        /\ IsClaimedDescriptor(Get(Entries[i].f.result, "tools").a[1])

(* ------------------------ what an SSE client sees ---------------------- *)
\* the connections a client has opened
Connected == {c \in Conns : sse[c].state # "none"}

\* the chunks written to the response of a connection, oldest first
Writes(c) == SelectSeq(sse[c].log, LAMBDA o : o.op = "write")

\* a public base URL is configured
Configured == publicBaseUrl.k = "str" /\ publicBaseUrl.s # ""

\* the base the announcement is to carry
AnnouncedBase(c) ==
  IF Configured THEN publicBaseUrl.s
  ELSE sse[c].protocol \o "://" \o sse[c].host

\* an endpoint event whose data is the bare URL of the POST endpoint
BareEndpointBlock(c) == "event: endpoint\ndata: " \o AnnouncedBase(c) \o "/mcp\n\n"

\* C17: on a connect the first two writes are two endpoint events with the
\* same payload, the bare URL <base>/mcp, and no keep-alive comment comes
\* before them.
C17_EndpointTwice ==
  \A c \in Connected :
    /\ Len(Writes(c)) >= 2
    /\ Writes(c)[1].data = BareEndpointBlock(c)
    /\ Writes(c)[2].data = BareEndpointBlock(c)

\* C18: the announcement carries the configured public base URL whenever
\* one is configured, whatever the scheme and host of the request, and the
\* scheme and host of the request only when none is.
C18_BasePreference ==
  \A c \in Connected :
    /\ Len(Writes(c)) >= 2
    /\ Writes(c)[2].data =
         "data: " \o EndpointEventJson(AnnouncedBase(c)) \o "\n\n"

C18_Witness ==
  /\ Configured
  /\ 1 \in Connected
  /\ sse[1].protocol \o "://" \o sse[1].host # publicBaseUrl.s
  /\ Len(Writes(1)) >= 2

\* C19: once the close of a connection has been handled its timer is
\* cancelled, and nothing is done to the connection again: a step from a
\* state where it is closed leaves its log, and so its writes, as they are.
C19_NoWriteAfterClose ==
  [][\A c \in Conns :
       /\ sse'[c].state = "closed" => sse'[c].timer = "cleared"
       /\ sse[c].state = "closed" => sse'[c] = sse[c]]_vars

\* a connection that was closed after a ping, at a time when its interval
\* would have fired again
C19_Witness ==
  /\ sse[1].state = "closed"
  /\ Len(Writes(1)) >= 3
  /\ time >= sse[1].due

\* the interval the keep-alive is promised at
PromisedIntervalMs == 15000

\* C20: every write after the announcement is a comment line ": ping <ms>"
\* carrying the time it is written at; writes are never further apart than
\* the keep-alive interval, and while the connection is open the last write
\* is never older than the interval.
C20_KeepAlive ==
  \A c \in Connected :
    LET w == Writes(c) IN
      /\ \A k \in 3..Len(w) : w[k].data = ": ping " \o ToString(w[k].at) \o "\n\n"
      /\ \A k \in 2..Len(w) : w[k].at - w[k - 1].at <= PromisedIntervalMs
      /\ sse[c].state = "open" => time - w[Len(w)].at <= PromisedIntervalMs

\* an open connection that has been pinged twice
C20_Witness ==
  /\ sse[1].state = "open"
  /\ Len(Writes(1)) >= 4
  /\ Writes(1)[4].at = Writes(1)[3].at + PromisedIntervalMs

(* --------------------------- routes and answers ------------------------ *)
\* a response has been sent
Answered == resStatus # 0

\* C21: a GET on the JSON-RPC path is answered 405.
C21_GetMcpIs405 ==
  (route = "GET /mcp" /\ Answered) => resStatus = 405

\* the response the dispatcher gives to the body of the request, under the
\* draws that were made
IsDispatcherResponse ==
  /\ resStatus = 200
  /\ \E rs \in [1..Len(Requests(reqBody)) -> {0, 1}] :
       LET out == ForLoop(Requests(reqBody), now, rs)
       IN  /\ ~out.threw
           /\ out.drawn = rnd
           /\ resBody = ResJsonArg(reqBody, out.responses)

\* C22: a JSON-RPC POST on /mcp, / or /sse, with or without a trailing slash,
\* gets the dispatcher's response, and never the 404 of the fallback.
C22_AliasesDispatch ==
  (route \in AliasRoutes \cup {"POST /mcp"} /\ reqBody \in ProbeBodies /\ Answered) =>
    /\ resStatus # 404
    /\ IsDispatcherResponse

\* a yes/no answer has been produced
AnswerProduced ==
  /\ resStatus = 200
  /\ \/ route = "GET /answer"
     \/ route = "POST /invocations"
     \/ Handler(route) = "mcp" /\ \E i \in 1..Len(rnd) : rnd[i] # <<>>

Positions(c, op) == {i \in 1..Len(sse[c].log) : sse[c].log[i].op = op}

\* C25: on every connection the headers are flushed once, before the base
\* URL is computed, before the timer is created and before anything is
\* written, the keep-alive comments included.
C25_HeadersFirst ==
  \A c \in Connected :
    /\ Cardinality(Positions(c, "flushHeaders")) = 1
    /\ \A f \in Positions(c, "flushHeaders") :
         \A op \in {"base", "write", "setInterval"} :
           /\ Positions(c, op) # {}
           /\ \A i \in Positions(c, op) : f < i

\* a connection that has been announced and pinged
C25_Witness ==
  /\ sse[1].state = "open"
  /\ Cardinality(Positions(1, "write")) >= 3
  /\ Positions(1, "base") # {}

\* C26: a connection that is open has created one timer and cleared none, and
\* its timer is live; a closed one has created one and cleared it; one that
\* never connected has none.  The step that closes a connection leaves every
\* other connection, its timer and its writes, as it was.
C26_OneTimerEach ==
  [][\A c \in Conns :
       /\ Cardinality(Positions(c, "setInterval"))' =
            (IF sse'[c].state = "none" THEN 0 ELSE 1)
       /\ Cardinality(Positions(c, "clearInterval"))' =
            (IF sse'[c].state = "closed" THEN 1 ELSE 0)
       /\ (sse'[c].timer = "live") <=> (sse'[c].state = "open")
       /\ (sse[c].state = "open" /\ sse'[c].state = "closed") =>
            \A d \in Conns \ {c} : sse'[d] = sse[d]]_vars

\* the first connection has been closed, and the second, still open, has
\* been pinged since
C26_Witness ==
  /\ sse[1].state = "closed"
  /\ sse[2].state = "open"
  /\ Len(Writes(2)) >= 3
  /\ \A e \in Positions(1, "end") :
       Writes(2)[Len(Writes(2))].at > sse[1].log[e].at

\* what a client and the event loop see of a connection: its state, its
\* timer and the chunks written to it
Effect(conn) ==
  [state |-> conn.state, timer |-> conn.timer, due |-> conn.due,
   writes |-> SelectSeq(conn.log, LAMBDA o : o.op = "write")]

\* C27: every run of the close listener clears the timer and ends the
\* response, the first as well as a later one on a response that is ended
\* already; nothing it calls throws out of it; and a run after the first
\* leaves the state, the timer and the writes of the connection as they are.
C27_TeardownIdempotent ==
  [][\A c \in Conns :
       /\ Positions(c, "uncaught")' = {}
       /\ (Teardowns(c)' > Teardowns(c)) =>
            /\ sse'[c].timer = "cleared"
            /\ sse'[c].state = "closed"
            /\ Teardowns(c) >= 1 => Effect(sse'[c]) = Effect(sse[c])]_vars

\* the listener of a connection that had been pinged has run twice, and the
\* clock has reached the time its timer would have fired at
C27_Witness ==
  /\ Teardowns(1) = 2
  /\ Len(Writes(1)) >= 3
  /\ time >= sse[1].due

====
